---- MODULE Spec2Model ----
(***************************************************************************)
(* A model of google.js: an Express gateway with five GET routes that      *)
(* forward a report request to the Google Analytics Data API and reshape   *)
(* the tabular answer into flat JSON records.                              *)
(*                                                                         *)
(* JavaScript values are tagged records, strings are sequences of          *)
(* one-character strings, and numbers are fixed-point integers in units of *)
(* 1/Scale, so that every decimal literal of the modelled length is exact. *)
(***************************************************************************)
EXTENDS Integers, Sequences, FiniteSets, Bags, TLC

(***************************************************************************)
(* Bounds of the model.                                                    *)
(***************************************************************************)
\* longest numeric string drawn for the limit query parameter
MaxStrLen == 3

(***************************************************************************)
(* JavaScript values.                                                      *)
(***************************************************************************)
Undefined == [k |-> "undefined"]
Null == [k |-> "null"]
NaN == [k |-> "nan"]
Str(s) == [k |-> "str", s |-> s]
Arr(a) == [k |-> "arr", a |-> a]

\* Op(v), with v evaluated once however often Op uses it
Once(v, Op(_)) == CHOOSE y \in {Op(o) : o \in {v}} : TRUE

RECURSIVE Pow10(_)
Pow10(n) == IF n = 0 THEN 1 ELSE 10 * Pow10(n - 1)

\* one unit of the fixed-point representation of a JavaScript number
Scale == Pow10(MaxStrLen)

\* the number n / Scale
Fixed(n) == [k |-> "num", n |-> n]

\* the integer n as a JavaScript number
Num(n) == Fixed(n * Scale)

IsNullish(v) == v = Undefined \/ v = Null

\* a ?? b
Coalesce(a, b) == IF IsNullish(a) THEN b ELSE a

\* ToBoolean: undefined, null, "", NaN and 0 are falsy
Truthy(v) ==
    /\ ~IsNullish(v)
    /\ v # NaN
    /\ v # Str(<<>>)
    /\ v # Num(0)

DigitChars == <<"0", "1", "2", "3", "4", "5", "6", "7", "8", "9">>

IsDigit(c) == \E i \in 1..10 : DigitChars[i] = c

DigitVal(c) == (CHOOSE i \in 1..10 : DigitChars[i] = c) - 1

RECURSIVE DigitsVal(_)
DigitsVal(digits) ==
    Once(digits, LAMBDA s :
        IF s = <<>> THEN 0
        ELSE 10 * DigitsVal(SubSeq(s, 1, Len(s) - 1)) + DigitVal(s[Len(s)]))

\* StringToNumber on strings of sign, digits and a decimal point:
\* "" is 0; [+-] digits [. digits] and [+-] . digits are decimal literals;
\* anything else is NaN.
StringToNumber(s) ==
    IF s = <<>> THEN Num(0)
    ELSE
        LET signed == s[1] \in {"-", "+"}
            body == IF signed THEN Tail(s) ELSE s
            dots == {i \in 1..Len(body) : body[i] = "."}
            ok == /\ \A i \in 1..Len(body) : IsDigit(body[i]) \/ body[i] = "."
                  /\ Cardinality(dots) <= 1
                  /\ \E i \in 1..Len(body) : IsDigit(body[i])
            dot == IF dots = {} THEN Len(body) + 1 ELSE CHOOSE i \in dots : TRUE
            int == SubSeq(body, 1, dot - 1)
            frac == SubSeq(body, dot + 1, Len(body))
            mag == DigitsVal(int) * Scale + DigitsVal(frac) * (Scale \div Pow10(Len(frac)))
        IN  IF ~ok THEN NaN
            ELSE Fixed(IF s[1] = "-" THEN -mag ELSE mag)

\* Number(v) on the values a query parameter or a report cell can hold
ToNumber(v) ==
    CASE v.k = "num" -> v
      [] v.k = "nan" -> NaN
      [] v.k = "undefined" -> NaN
      [] v.k = "null" -> Num(0)
      [] v.k = "str" -> StringToNumber(v.s)
      [] OTHER -> NaN

\* ToIntegerOrInfinity: NaN is 0, otherwise truncate toward zero
ToIntegerOrInfinity(v) ==
    IF v = NaN THEN 0
    ELSE IF v.n >= 0 THEN v.n \div Scale ELSE -((-v.n) \div Scale)

(***************************************************************************)
(* rowsToObjects (the Row Flattener).                                      *)
(***************************************************************************)
\* an object literal {} ; objects are functions from key names to values
EmptyObj == [key \in {} |-> Undefined]

\* obj[key] = v
SetKey(obj, key, v) ==
    Once(obj, LAMBDA o : [kk \in DOMAIN o \cup {key} |-> IF kk = key THEN v ELSE o[kk]])

\* obj.key, undefined when the key is not set
GetKey(obj, key) == IF key \in DOMAIN obj THEN obj[key] ELSE Undefined

\* values?.[i]?.value, with i counted from zero
CellValue(values, i) ==
    IF IsNullish(values) THEN Undefined
    ELSE IF i + 1 > Len(values.a) THEN Undefined
    ELSE IF IsNullish(values.a[i + 1]) THEN Undefined
    ELSE values.a[i + 1].value

\* the dimension loop reading the wrong array: row.metricValues?.[i]?.value ?? null
RECURSIVE SetDimensionsFromMetrics(_, _, _, _)
SetDimensionsFromMetrics(obj, row, headers, i) ==
    IF i >= Len(headers) THEN obj
    ELSE SetDimensionsFromMetrics(
            SetKey(obj, headers[i + 1].name, Coalesce(CellValue(row.metricValues, i), Null)),
            row, headers, i + 1)

\* dimensionHeaders.forEach((h, i) => (obj[h.name] = row.dimensionValues?.[i]?.value ?? null))
RECURSIVE SetDimensions(_, _, _, _)
SetDimensions(obj, row, headers, i) ==
    IF i >= Len(headers) THEN obj
    ELSE SetDimensions(
            SetKey(obj, headers[i + 1].name, Coalesce(CellValue(row.dimensionValues, i), Null)),
            row, headers, i + 1)

\* the metric loop without its default: Number(row.metricValues?.[i]?.value)
RECURSIVE SetMetricsNoDefault(_, _, _, _)
SetMetricsNoDefault(obj, row, headers, i) ==
    IF i >= Len(headers) THEN obj
    ELSE SetMetricsNoDefault(
            SetKey(obj, headers[i + 1].name, ToNumber(CellValue(row.metricValues, i))),
            row, headers, i + 1)

\* metricHeaders.forEach((h, i) => (obj[h.name] = Number(row.metricValues?.[i]?.value ?? 0)))
RECURSIVE SetMetrics(_, _, _, _)
SetMetrics(obj, row, headers, i) ==
    IF i >= Len(headers) THEN obj
    ELSE SetMetrics(
            SetKey(obj, headers[i + 1].name,
                   ToNumber(Coalesce(CellValue(row.metricValues, i), Num(0)))),
            row, headers, i + 1)

\* the callback of rows.map
RowToObject(row, dimensionHeaders, metricHeaders) ==
    SetMetrics(SetDimensions(EmptyObj, row, dimensionHeaders, 0), row, metricHeaders, 0)

\* a parameter default: undefined becomes the empty array
DefaultArr(v) == IF v = Undefined THEN <<>> ELSE v.a

rowsToObjects(rows, dimensionHeaders, metricHeaders) ==
    LET rs == DefaultArr(rows)
        dh == DefaultArr(dimensionHeaders)
        mh == DefaultArr(metricHeaders)
    IN  [j \in 1..Len(rs) |-> RowToObject(rs[j], dh, mh)]

(***************************************************************************)
(* Date.  A time value counts hours since 1970-01-01T00:00Z (the clock is  *)
(* read to the hour); the day and month arithmetic is ECMAScript's.        *)
(***************************************************************************)
HoursPerDay == 24

Day(t) == t \div HoursPerDay

TimeWithinDay(t) == t % HoursPerDay

DaysInYear(y) ==
    IF y % 4 # 0 THEN 365
    ELSE IF y % 100 # 0 THEN 366
    ELSE IF y % 400 # 0 THEN 365
    ELSE 366

\* the day number of the first day of year y
DayFromYear(y) ==
    365 * (y - 1970) + ((y - 1969) \div 4) - ((y - 1901) \div 100) + ((y - 1601) \div 400)

YearFromTime(t) ==
    LET guess == 1970 + (Day(t) \div 366)
    IN  CHOOSE y \in guess..(guess + 2) : DayFromYear(y) <= Day(t) /\ Day(t) < DayFromYear(y + 1)

InLeapYear(t) == IF DaysInYear(YearFromTime(t)) = 366 THEN 1 ELSE 0

DayWithinYear(t) == Day(t) - DayFromYear(YearFromTime(t))

\* the day within the year on which month m (0 = January) starts
MonthStart(m, leap) ==
    CASE m = 0 -> 0
      [] m = 1 -> 31
      [] m = 2 -> 59 + leap
      [] m = 3 -> 90 + leap
      [] m = 4 -> 120 + leap
      [] m = 5 -> 151 + leap
      [] m = 6 -> 181 + leap
      [] m = 7 -> 212 + leap
      [] m = 8 -> 243 + leap
      [] m = 9 -> 273 + leap
      [] m = 10 -> 304 + leap
      [] m = 11 -> 334 + leap
      [] OTHER -> 365 + leap

MonthFromTime(t) ==
    CHOOSE m \in 0..11 :
        /\ MonthStart(m, InLeapYear(t)) <= DayWithinYear(t)
        /\ DayWithinYear(t) < MonthStart(m + 1, InLeapYear(t))

DateFromTime(t) == DayWithinYear(t) - MonthStart(MonthFromTime(t), InLeapYear(t)) + 1

\* MakeDay(year, month, date): the date may lie outside the month
MakeDay(year, month, date) ==
    LET ym == year + (month \div 12)
        mn == month % 12
        leap == IF DaysInYear(ym) = 366 THEN 1 ELSE 0
    IN  DayFromYear(ym) + MonthStart(mn, leap) + date - 1

MakeDate(day, time) == day * HoursPerDay + time

\* A time zone: UTC offset `before` (hours) until the instant `at`, `after` from it on.
FixedZone(off) == [before |-> off, after |-> off, at |-> 0]

LocalTZA(zone, t) == IF t < zone.at THEN zone.before ELSE zone.after

LocalTime(zone, t) == t + LocalTZA(zone, t)

\* UTC(t): a local time that is skipped or repeated by a transition is read
\* with the offset in force before the transition
UTC(zone, lt) ==
    LET u1 == lt - zone.before
        u2 == lt - zone.after
    IN  IF u1 < zone.at THEN u1 ELSE IF u2 >= zone.at THEN u2 ELSE u1

\* Date.prototype.getDate
getDate(zone, t) == DateFromTime(LocalTime(zone, t))

\* Date.prototype.setDate(dt), the new time value
setDate(zone, t, dt) ==
    LET lt == LocalTime(zone, t)
    IN  UTC(zone, MakeDate(MakeDay(YearFromTime(lt), MonthFromTime(lt), dt), TimeWithinDay(lt)))

\* n in decimal, zero-padded to width digits
RECURSIVE Pad(_, _)
Pad(n, width) ==
    IF width = 0 THEN <<>> ELSE Append(Pad(n \div 10, width - 1), DigitChars[(n % 10) + 1])

\* the first ten characters of Date.prototype.toISOString: the UTC calendar date
ISODate(t) ==
    Pad(YearFromTime(t), 4) \o <<"-">> \o Pad(MonthFromTime(t) + 1, 2) \o <<"-">>
        \o Pad(DateFromTime(t), 2)

toISO(date) == Str(ISODate(date))

\* defaultRange(days) with the clock reading `clock` in time zone `zone`
defaultRange(zone, clock, days) ==
    LET end == clock
        start == setDate(zone, clock, getDate(zone, end) - (days - 1))
    IN  [startDate |-> toISO(start), endDate |-> toISO(end)]

(***************************************************************************)
(* The routes: what each asks of the upstream service, and how it answers. *)
(*                                                                         *)
(* Text the program never inspects (names, messages) is a one-symbol       *)
(* string.                                                                 *)
(***************************************************************************)
Text(word) == Str(<<word>>)

Routes == {"overview", "timeseries", "top-pages", "sources", "devices"}

\* the default of the limit query parameter
DefaultLimit == 10

\* the days of the default window
DefaultDays == 28

\* const { start, end, limit = 10, metric = 'activeUsers' } = req.query
Param(v, default) == IF v = Undefined THEN default ELSE v

\* String(metric) as a field name
FieldName(v) == v.s[1]

\* the test with || in place of &&: start || end ? { ... } : defaultRange(28)
ResolveRangeEither(start, end, zone, clock) ==
    IF Truthy(start) \/ Truthy(end)
    THEN [startDate |-> start, endDate |-> end]
    ELSE defaultRange(zone, clock, DefaultDays)

\* start && end ? { startDate: start, endDate: end } : defaultRange(28)
ResolveRange(start, end, zone, clock) ==
    IF Truthy(start) /\ Truthy(end)
    THEN [startDate |-> start, endDate |-> end]
    ELSE defaultRange(zone, clock, DefaultDays)

Dimensions(rt, q) ==
    CASE rt = "overview" -> <<>>
      [] rt = "timeseries" -> <<"date">>
      [] rt = "top-pages" -> <<"pageTitle", "pagePath">>
      [] rt = "sources" -> <<"sessionDefaultChannelGroup">>
      [] rt = "devices" -> <<"deviceCategory">>

Metrics(rt, q) ==
    CASE rt = "overview" ->
            <<"totalUsers", "activeUsers", "newUsers", "sessions", "screenPageViews",
              "engagementRate", "averageSessionDuration", "bounceRate">>
      [] rt = "timeseries" -> <<FieldName(Param(q.metric, Text("activeUsers")))>>
      [] rt = "top-pages" -> <<"screenPageViews", "activeUsers">>
      [] rt = "sources" -> <<"sessions", "activeUsers", "engagedSessions">>
      [] rt = "devices" -> <<"activeUsers", "sessions">>

\* one tag copied to every route
ErrorTagCopied(rt) == "overview_failed"

\* the fixed tag of a route's error response
ErrorTag(rt) ==
    CASE rt = "overview" -> "overview_failed"
      [] rt = "timeseries" -> "timeseries_failed"
      [] rt = "top-pages" -> "top_pages_failed"
      [] rt = "sources" -> "sources_failed"
      [] rt = "devices" -> "devices_failed"

\* the metric a route sorts by
SortKey(rt) == IF rt = "top-pages" THEN "screenPageViews" ELSE "sessions"

\* names.map((name) => ({ name }))
Named(names) == [i \in 1..Len(names) |-> [name |-> names[i]]]

\* the request runReport hands to analyticsDataClient.runReport
UpstreamRequest(dateRanges, dimensions, metrics) ==
    [property |-> <<"properties/", "PROPERTY_ID">>,
     dateRanges |-> dateRanges,
     dimensions |-> Named(dimensions),
     metrics |-> Named(metrics)]

\* a - b on numbers; NaN when an operand is not a number
Minus(a, b) == IF a.k = "num" /\ b.k = "num" THEN Fixed(a.n - b.n) ELSE NaN

\* the comparator with its operands swapped: (a, b) => a[key] - b[key]
CompareAsc(a, b, key) ==
    LET d == Minus(GetKey(a, key), GetKey(b, key))
    IN  IF d = NaN THEN 0 ELSE d.n

\* (a, b) => b[key] - a[key], as Array.prototype.sort reads it: NaN counts as 0
CompareDesc(a, b, key) ==
    LET d == Minus(GetKey(b, key), GetKey(a, key))
    IN  IF d = NaN THEN 0 ELSE d.n

\* x put into the sorted array s behind every element that does not compare after it
RECURSIVE InsertSorted(_, _, _)
InsertSorted(sorted, x, key) ==
    Once(sorted, LAMBDA s :
        IF s = <<>> THEN <<x>>
        ELSE IF CompareDesc(s[Len(s)], x, key) <= 0 THEN Append(s, x)
        ELSE Append(InsertSorted(SubSeq(s, 1, Len(s) - 1), x, key), s[Len(s)]))

\* Array.prototype.sort with the comparator above (the sort is stable)
RECURSIVE SortDesc(_, _)
SortDesc(array, key) ==
    Once(array, LAMBDA s :
        IF s = <<>> THEN <<>>
        ELSE InsertSorted(SortDesc(SubSeq(s, 1, Len(s) - 1), key), s[Len(s)], key))

\* Array.prototype.slice(0, end)
Slice0(s, end) ==
    LET relEnd == ToIntegerOrInfinity(end)
        len == Len(s)
        final == IF relEnd < 0 THEN (IF len + relEnd > 0 THEN len + relEnd ELSE 0)
                 ELSE (IF relEnd < len THEN relEnd ELSE len)
    IN  SubSeq(s, 1, final)

\* data.rows[0] || {}
FirstRowOrEmpty(rows) == IF Len(rows) >= 1 THEN rows[1] ELSE EmptyObj

\* the field without its default: row.field
KpiNoDefault(row, field) == GetKey(row, field)

\* row.field ?? 0
Kpi(row, field) == Coalesce(GetKey(row, field), Num(0))

\* the meta of runReport's result
Meta(res) ==
    [rowCount |-> Coalesce(res.rowCount, Num(0)),
     samplesReadCount |->
        Coalesce(IF IsNullish(res.metadata) THEN Undefined
                 ELSE GetKey(res.metadata, "samplesReadCount"), Num(0)),
     samplingMetadatas |->
        Coalesce(IF IsNullish(res.metadata) THEN Undefined
                 ELSE GetKey(res.metadata, "samplingMetadatas"), Arr(<<>>))]

\* the truncation with a fallback to the default for a limit that is not a number:
\* slice(0, Number(limit) || 10)
TopRowsOrDefault(sorted, q) ==
    Slice0(sorted, IF Truthy(ToNumber(Param(q.limit, Num(DefaultLimit))))
                   THEN ToNumber(Param(q.limit, Num(DefaultLimit)))
                   ELSE Num(DefaultLimit))

\* the rows a sorting route answers with, given the sorted array
TopRows(sorted, q) == Slice0(sorted, ToNumber(Param(q.limit, Num(DefaultLimit))))

\* the body res.json sends on success; rows is data.rows after any sort
SuccessBody(rt, q, rng, meta, rows) ==
    CASE rt = "overview" ->
            LET row == FirstRowOrEmpty(rows)
            IN  [range |-> rng,
                 kpis |-> [f \in {Metrics(rt, q)[i] : i \in 1..Len(Metrics(rt, q))} |->
                              Kpi(row, f)],
                 meta |-> meta]
      [] rt = "timeseries" ->
            [range |-> rng, metric |-> Param(q.metric, Text("activeUsers")), rows |-> rows]
      [] rt \in {"top-pages", "sources"} -> [range |-> rng, rows |-> TopRows(rows, q)]
      [] rt = "devices" -> [range |-> rng, rows |-> rows]

\* res.status(500).json({ error, details: e.message })
ErrorResponse(rt, e) ==
    [status |-> 500, body |-> [error |-> ErrorTag(rt), details |-> e.message]]

(***************************************************************************)
(* The server: each request runs its route handler, which suspends at the  *)
(* upstream call inside runReport and again at its own await of runReport. *)
(***************************************************************************)
VARIABLES
    now,        \* the clock, hours since the epoch
    tz,         \* the time zone of the process
    pc,         \* pc[r]: where request r's handler stands
    route,      \* route[r]: the route request r came in on
    query,      \* query[r]: req.query
    range,      \* range[r]: the handler's local `range`
    upreq,      \* upreq[r]: the requests handed to the upstream client, in order
    upstream,   \* upstream[r]: the state of the upstream call's promise
    data,       \* data[r]: what runReport settled with; data.rows is a heap reference
    heap,       \* the arrays rowsToObjects has created
    resp,       \* resp[r]: the responses sent for request r, in order
    days,       \* defaultRange's argument, for the Range Resolver on its own
    rangeOut,   \* defaultRange's result
    flatIn,     \* rowsToObjects' arguments, for the Row Flattener on its own
    flatOut     \* rowsToObjects' result

vars == <<now, tz, pc, route, query, range, upreq, upstream, data, heap, resp,
          days, rangeOut, flatIn, flatOut>>

serverVars == <<pc, route, query, range, upreq, upstream, data, heap, resp>>

\* requests handled concurrently
NumReqs == 2

ReqIds == 1..NumReqs

None == [k |-> "none"]

NoQuery == [start |-> Undefined, end |-> Undefined, limit |-> Undefined, metric |-> Undefined]

NoCall == [state |-> "none"]

Pending == [state |-> "pending"]

Resolved(res) == [state |-> "resolved", res |-> res]

Rejected(e) == [state |-> "rejected", e |-> e]

\* the time value of hour h of the UTC day y-m-d
TimeAt(y, m, d, h) == MakeDate(MakeDay(y, m - 1, d), h)

\* one array kept for every report: the first reference, whoever holds it
AllocShared(h) == 1

\* rows.map creates a new array: a reference no array has yet
AllocRef(h) == Len(h) + 1

\* the heap with array arr at reference ref
Store(h, ref, arr) == IF ref <= Len(h) THEN [h EXCEPT ![ref] = arr] ELSE Append(h, arr)

ServerIdle ==
    /\ pc = [r \in ReqIds |-> "idle"]
    /\ route = [r \in ReqIds |-> "none"]
    /\ query = [r \in ReqIds |-> NoQuery]
    /\ range = [r \in ReqIds |-> None]
    /\ upreq = [r \in ReqIds |-> <<>>]
    /\ upstream = [r \in ReqIds |-> NoCall]
    /\ data = [r \in ReqIds |-> None]
    /\ heap = <<>>
    /\ resp = [r \in ReqIds |-> <<>>]

\* The handler up to its await: read the query, resolve the range, call runReport,
\* which builds the request and calls the upstream client.
Receive(r, rt, q) ==
    /\ pc[r] = "idle"
    /\ LET rng == ResolveRange(q.start, q.end, tz, now)
       IN  /\ range' = [range EXCEPT ![r] = rng]
           /\ upreq' = [upreq EXCEPT ![r] =
                   Append(@, UpstreamRequest(<<rng>>, Dimensions(rt, q), Metrics(rt, q)))]
    /\ route' = [route EXCEPT ![r] = rt]
    /\ query' = [query EXCEPT ![r] = q]
    /\ upstream' = [upstream EXCEPT ![r] = Pending]
    /\ pc' = [pc EXCEPT ![r] = "awaiting"]
    /\ UNCHANGED <<now, tz, data, heap, resp, days, rangeOut, flatIn, flatOut>>

\* The upstream service answers with a report.
UpstreamResolve(r, res) ==
    /\ upstream[r] = Pending
    /\ upstream' = [upstream EXCEPT ![r] = Resolved(res)]
    /\ UNCHANGED <<now, tz, pc, route, query, range, upreq, data, heap, resp,
                   days, rangeOut, flatIn, flatOut>>

\* The upstream call fails with error e.
UpstreamReject(r, e) ==
    /\ upstream[r] = Pending
    /\ upstream' = [upstream EXCEPT ![r] = Rejected(e)]
    /\ UNCHANGED <<now, tz, pc, route, query, range, upreq, data, heap, resp,
                   days, rangeOut, flatIn, flatOut>>

\* runReport resumes with the report: it flattens the rows into a new array and
\* fulfils its promise with { meta, rows }.
RunReportReturn(r) ==
    /\ pc[r] = "awaiting"
    /\ upstream[r].state = "resolved"
    /\ LET res == upstream[r].res
           ref == AllocRef(heap)
       IN  /\ heap' = Store(heap, ref,
                        rowsToObjects(res.rows, res.dimensionHeaders, res.metricHeaders))
           /\ data' = [data EXCEPT ![r] = [meta |-> Meta(res), rows |-> ref]]
    /\ pc' = [pc EXCEPT ![r] = "reported"]
    /\ UNCHANGED <<now, tz, route, query, range, upreq, upstream, resp,
                   days, rangeOut, flatIn, flatOut>>

\* runReport meeting a failure by calling the upstream client once more
RunReportRetryOnce(r) ==
    /\ pc[r] = "awaiting"
    /\ upstream[r].state = "rejected"
    /\ IF Len(upreq[r]) < 2
       THEN /\ upreq' = [upreq EXCEPT ![r] = Append(@, @[1])]
            /\ upstream' = [upstream EXCEPT ![r] = Pending]
            /\ UNCHANGED <<pc, data>>
       ELSE /\ data' = [data EXCEPT ![r] = [error |-> upstream[r].e]]
            /\ pc' = [pc EXCEPT ![r] = "threw"]
            /\ UNCHANGED <<upreq, upstream>>
    /\ UNCHANGED <<now, tz, route, query, range, heap, resp, days, rangeOut, flatIn, flatOut>>

\* runReport resumes with the failure and rejects its promise with it.
RunReportThrow(r) ==
    /\ pc[r] = "awaiting"
    /\ upstream[r].state = "rejected"
    /\ data' = [data EXCEPT ![r] = [error |-> upstream[r].e]]
    /\ pc' = [pc EXCEPT ![r] = "threw"]
    /\ UNCHANGED <<now, tz, route, query, range, upreq, upstream, heap, resp,
                   days, rangeOut, flatIn, flatOut>>

\* The handler resumes with data: top-pages and sources sort data.rows in place;
\* every route then sends its success body.
RouteRespond(r) ==
    /\ pc[r] = "reported"
    /\ LET ref == data[r].rows
           rows == IF route[r] \in {"top-pages", "sources"}
                   THEN SortDesc(heap[ref], SortKey(route[r]))
                   ELSE heap[ref]
       IN  /\ heap' = Store(heap, ref, rows)
           /\ resp' = [resp EXCEPT ![r] = Append(@,
                   [status |-> 200,
                    body |-> SuccessBody(route[r], query[r], range[r], data[r].meta, rows)])]
    /\ pc' = [pc EXCEPT ![r] = "done"]
    /\ UNCHANGED <<now, tz, route, query, range, upreq, upstream, data,
                   days, rangeOut, flatIn, flatOut>>

\* The handler's catch block: HTTP 500 with the route's tag and the failure's message.
RouteCatch(r) ==
    /\ pc[r] = "threw"
    /\ resp' = [resp EXCEPT ![r] = Append(@, ErrorResponse(route[r], data[r].error))]
    /\ pc' = [pc EXCEPT ![r] = "done"]
    /\ UNCHANGED <<now, tz, route, query, range, upreq, upstream, data, heap,
                   days, rangeOut, flatIn, flatOut>>

(***************************************************************************)
(* The inputs drawn: query strings, and the reports and failures of the    *)
(* upstream service.                                                       *)
(***************************************************************************)
\* most rows in a report drawn exhaustively
MaxRows == 3

\* the characters limit strings are drawn from
LimitChars == {"2", "-", ".", "a"}

SeqsUpTo(S, n) == UNION {[1..m -> S] : m \in 0..n}

LimitStrings == SeqsUpTo(LimitChars, MaxStrLen)

StartParams == {Undefined, Str(<<>>), Text("2024-01-01")}

EndParams == {Undefined, Str(<<>>), Text("2024-01-03")}

\* the query strings drawn for a route: every combination of start and end, and
\* on the routes that read them every limit string and a metric name
Queries(rt) ==
    {[NoQuery EXCEPT !.start = s, !.end = e] : s \in StartParams, e \in EndParams}
    \cup (IF rt \in {"top-pages", "sources"}
          THEN {[NoQuery EXCEPT !.limit = Str(l)] : l \in LimitStrings}
          ELSE {})
    \cup (IF rt = "timeseries"
          THEN {[NoQuery EXCEPT !.metric = Text("sessions")],
                [start |-> Text("2024-01-01"), end |-> Text("2024-01-03"),
                 limit |-> Undefined, metric |-> Text("sessions")]}
          ELSE {})

\* the values the first metric of a row is drawn from
MetricValues == {<<"1">>, <<"2">>}

Cell(s) == [value |-> Str(s)]

\* Row i of a report: its dimension values name the column and the row, its first
\* metric value is v, its other metric values name the column.
ReportRow(i, v, nDims, nMetrics) ==
    [dimensionValues |->
        Arr([j \in 1..nDims |-> Cell(<<"d", DigitChars[j + 1], "r">> \o Pad(i, 2))]),
     metricValues |->
        Arr([j \in 1..nMetrics |-> IF j = 1 THEN Cell(v) ELSE Cell(<<DigitChars[j + 1]>>)])]

\* A report answering dimensions dims and metrics mets whose rows have first metric
\* values vs; its headers echo the requested names, the last `drop` metrics left out.
Report(dims, mets, vs, drop, metadata) ==
    [rows |-> Arr([i \in 1..Len(vs) |-> ReportRow(i, vs[i], Len(dims), Len(mets) - drop)]),
     dimensionHeaders |-> Arr(Named(dims)),
     metricHeaders |-> Arr(Named(SubSeq(mets, 1, Len(mets) - drop))),
     rowCount |-> Num(Len(vs)),
     metadata |-> metadata]

\* a report with no field set
EmptyReport ==
    [rows |-> Undefined, dimensionHeaders |-> Undefined, metricHeaders |-> Undefined,
     rowCount |-> Undefined, metadata |-> Undefined]

\* more rows than the default limit, first metric values 1, 2, 1, 2, ...
LongValues == [i \in 1..(DefaultLimit + 2) |-> IF i % 2 = 1 THEN <<"1">> ELSE <<"2">>]

SamplingMetadata == [samplesReadCount |-> Text("1000"), samplingMetadatas |-> Arr(<<>>)]

\* the reports drawn in answer to dimensions dims and metrics mets
Reports(dims, mets) ==
    {Report(dims, mets, vs, 0, Undefined) : vs \in SeqsUpTo(MetricValues, MaxRows) \cup {LongValues}}
    \cup {Report(dims, mets, vs, 1, Undefined) : vs \in SeqsUpTo(MetricValues, 1)}
    \cup {Report(dims, mets, <<<<"1">>>>, 0, SamplingMetadata)}
    \cup {EmptyReport}

\* the failures of the upstream call: Error objects
Failures == {[message |-> Text("PERMISSION_DENIED")], [message |-> Text("DEADLINE_EXCEEDED")]}

\* the clock and time zone the server runs with: 02:00 on 1 March 2024 at UTC+5
ServerClock == TimeAt(2024, 2, 29, 21)

ServerZone == FixedZone(5)

Unused ==
    /\ days = 0
    /\ rangeOut = None
    /\ flatIn = None
    /\ flatOut = None

\* the routes a request that has not come in yet may come in on
Arrivals(r) == IF pc[r] = "idle" THEN Routes ELSE {}

\* the reports the upstream service may answer request r's call with
Answers(r) ==
    IF upstream[r] # Pending THEN {}
    ELSE Reports([i \in 1..Len(upreq[r][1].dimensions) |-> upreq[r][1].dimensions[i].name],
                 [i \in 1..Len(upreq[r][1].metrics) |-> upreq[r][1].metrics[i].name])

(***************************************************************************)
(* Spec: one request, every query string and every upstream answer drawn.  *)
(***************************************************************************)
Init ==
    /\ now = ServerClock
    /\ tz = ServerZone
    /\ ServerIdle
    /\ Unused

Next ==
    \/ \E rt \in Arrivals(1) : \E q \in Queries(rt) : Receive(1, rt, q)
    \/ \E res \in Answers(1) : UpstreamResolve(1, res)
    \/ \E e \in Failures : UpstreamReject(1, e)
    \/ RunReportReturn(1)
    \/ RunReportThrow(1)
    \/ RouteRespond(1)
    \/ RouteCatch(1)

Spec == Init /\ [][Next]_vars

(***************************************************************************)
(* SpecConc: NumReqs requests handled concurrently, their handlers resumed *)
(* in any order, over fewer inputs each.                                   *)
(***************************************************************************)
\* the requests drawn: a route and a query string
ConcRequests ==
    {<<"top-pages", [NoQuery EXCEPT !.limit = Str(<<"2">>)]>>,
     <<"sources", NoQuery>>,
     <<"overview", NoQuery>>}

ConcArrivals(r) == IF pc[r] = "idle" THEN ConcRequests ELSE {}

ConcAnswers(r) ==
    IF upstream[r] # Pending THEN {}
    ELSE LET dims == [i \in 1..Len(upreq[r][1].dimensions) |-> upreq[r][1].dimensions[i].name]
             mets == [i \in 1..Len(upreq[r][1].metrics) |-> upreq[r][1].metrics[i].name]
         IN  {Report(dims, mets, <<<<"1">>, <<"2">>, <<"1">>>>, 0, Undefined),
              Report(dims, mets, <<<<"2">>, <<"1">>>>, 0, Undefined)}

ConcFailures == {[message |-> Text("PERMISSION_DENIED")]}

ConcInit ==
    /\ now = ServerClock
    /\ tz = ServerZone
    /\ ServerIdle
    /\ Unused

ConcNext ==
    \E r \in ReqIds :
        \/ \E a \in ConcArrivals(r) : Receive(r, a[1], a[2])
        \/ \E res \in ConcAnswers(r) : UpstreamResolve(r, res)
        \/ \E e \in ConcFailures : UpstreamReject(r, e)
        \/ RunReportReturn(r)
        \/ RunReportThrow(r)
        \/ RouteRespond(r)
        \/ RouteCatch(r)

SpecConc == ConcInit /\ [][ConcNext]_vars

(***************************************************************************)
(* SpecLive: one request on any route, with the fairness the event loop    *)
(* gives the handler's continuations.                                      *)
(***************************************************************************)
\* the query strings drawn for a route
LiveQueries(rt) ==
    {NoQuery, [NoQuery EXCEPT !.start = Text("2024-01-01"), !.end = Text("2024-01-03")]}
    \cup (IF rt \in {"top-pages", "sources"}
          THEN {[NoQuery EXCEPT !.limit = Str(<<"2">>)]} ELSE {})

LiveNext ==
    \/ \E rt \in Arrivals(1) : \E q \in LiveQueries(rt) : Receive(1, rt, q)
    \/ \E res \in ConcAnswers(1) : UpstreamResolve(1, res)
    \/ \E e \in Failures : UpstreamReject(1, e)
    \/ RunReportReturn(1)
    \/ RunReportThrow(1)
    \/ RouteRespond(1)
    \/ RouteCatch(1)

\* A continuation of a settled promise is a queued microtask, and the event loop
\* runs every queued microtask; nothing makes the upstream service answer.
Fairness ==
    \A r \in ReqIds :
        /\ WF_vars(RunReportReturn(r))
        /\ WF_vars(RunReportThrow(r))
        /\ WF_vars(RouteRespond(r))
        /\ WF_vars(RouteCatch(r))

SpecLive == Init /\ [][LiveNext]_vars /\ Fairness

(***************************************************************************)
(* SpecRange: defaultRange on its own, over clocks, time zones and days.   *)
(***************************************************************************)
\* most days asked of defaultRange, besides the default
MaxDays == 3

\* days drawn on either side of each anchor date for the clock
ClockWindow == 1

\* America/New_York around its 2024 transitions
NewYorkSpring == [before |-> -5, after |-> -4, at |-> TimeAt(2024, 3, 10, 7)]

NewYorkAutumn == [before |-> -4, after |-> -5, at |-> TimeAt(2024, 11, 3, 6)]

Zones == {FixedZone(0), FixedZone(5), FixedZone(-8), FixedZone(14), NewYorkSpring, NewYorkAutumn}

\* a year's first day, the day after a leap day, and the two transition days
Anchors == {TimeAt(2024, 1, 1, 0), TimeAt(2024, 3, 1, 0), TimeAt(2024, 3, 10, 0),
            TimeAt(2024, 11, 3, 0)}

RangeClocks ==
    {a + h : a \in Anchors,
             h \in (-(ClockWindow * HoursPerDay))..((ClockWindow + 1) * HoursPerDay - 1)}

RangeDays == (0..MaxDays) \cup {DefaultDays}

RangeInit ==
    /\ now \in RangeClocks
    /\ tz \in Zones
    /\ days \in RangeDays
    /\ rangeOut = None
    /\ flatIn = None
    /\ flatOut = None
    /\ ServerIdle

\* a call of defaultRange(days)
DefaultRangeCall ==
    /\ rangeOut = None
    /\ rangeOut' = defaultRange(tz, now, days)
    /\ UNCHANGED <<now, tz, days, flatIn, flatOut, serverVars>>

RangeNext == DefaultRangeCall

SpecRange == RangeInit /\ [][RangeNext]_vars

(***************************************************************************)
(* SpecFlat: rowsToObjects on its own, over headers and rows.              *)
(***************************************************************************)
\* most dimension headers, and most metric headers
MaxHeaders == 2

\* most rows handed to rowsToObjects
MaxFlatRows == 2

\* header names: a dimension header and a metric header can share the name "a"
DimensionNames == {"a", "b"}

MetricNames == {"a", "c"}

\* the header arrays over a set of names, and a response without the array
HeaderLists(names) ==
    {Arr(Named(ns)) : ns \in SeqsUpTo(names, MaxHeaders)} \cup {Undefined}

\* a row with n dimension values and n metric values, each naming its position
FlatRow(n) ==
    [dimensionValues |-> Arr([j \in 1..n |-> Cell(<<"x", DigitChars[j + 1]>>)]),
     metricValues |-> Arr([j \in 1..n |-> Cell(<<DigitChars[j + 1]>>)])]

\* a row with neither array
BareRow == [dimensionValues |-> Undefined, metricValues |-> Undefined]

FlatRows == {FlatRow(n) : n \in 0..MaxHeaders} \cup {BareRow}

FlatInputs ==
    {[rows |-> rows, dimensionHeaders |-> dh, metricHeaders |-> mh] :
        rows \in {Arr(rs) : rs \in SeqsUpTo(FlatRows, MaxFlatRows)} \cup {Undefined},
        dh \in HeaderLists(DimensionNames), mh \in HeaderLists(MetricNames)}

FlatInit ==
    /\ flatIn \in FlatInputs
    /\ flatOut = None
    /\ now = 0
    /\ tz = FixedZone(0)
    /\ days = 0
    /\ rangeOut = None
    /\ ServerIdle

\* a call of rowsToObjects(rows, dimensionHeaders, metricHeaders)
RowsToObjectsCall ==
    /\ flatOut = None
    /\ flatOut' = Arr(rowsToObjects(flatIn.rows, flatIn.dimensionHeaders, flatIn.metricHeaders))
    /\ UNCHANGED <<now, tz, days, rangeOut, flatIn, serverVars>>

FlatNext == RowsToObjectsCall

SpecFlat == FlatInit /\ [][FlatNext]_vars

(***************************************************************************)
(* The Range Resolver's claim.                                             *)
(***************************************************************************)
\* the day number a YYYY-MM-DD string names
ParseISODay(str) ==
    MakeDay(DigitsVal(SubSeq(str.s, 1, 4)), DigitsVal(SubSeq(str.s, 6, 7)) - 1,
            DigitsVal(SubSeq(str.s, 9, 10)))

\* today's date where the process runs: the calendar day of the local time
LocalToday == Day(LocalTime(tz, now))

\* C3: for any days and any current instant (any time of day, any time-zone offset,
\* any month boundary), defaultRange(days) returns an endDate equal to today's date
\* and a startDate exactly days - 1 calendar days before the endDate.
C3_EndIsTodayAndSpanIsDays ==
    rangeOut # None =>
        /\ ParseISODay(rangeOut.endDate) = LocalToday
        /\ ParseISODay(rangeOut.endDate) - ParseISODay(rangeOut.startDate) = days - 1

(***************************************************************************)
(* The Row Flattener's claims.                                             *)
(***************************************************************************)
FlatRowsIn == DefaultArr(flatIn.rows)

FlatDims == DefaultArr(flatIn.dimensionHeaders)

FlatMets == DefaultArr(flatIn.metricHeaders)

\* whether the row's array `values` holds a value at position i (from 1)
HasValue(values, i) == values # Undefined /\ i <= Len(values.a)

\* the i-th dimension value of a row, null when the row has none
DimensionOrNull(row, i) ==
    IF HasValue(row.dimensionValues, i) THEN row.dimensionValues.a[i].value ELSE Null

\* the i-th metric value of a row as a number, 0 when the row has none; a metric
\* value of the rows drawn is one digit
MetricOrZero(row, i) ==
    IF HasValue(row.metricValues, i) THEN Num(DigitVal(row.metricValues.a[i].value.s[1]))
    ELSE Num(0)

\* no later header writes the key of dimension header i
DimensionKeyKept(i) ==
    /\ \A i2 \in (i + 1)..Len(FlatDims) : FlatDims[i2].name # FlatDims[i].name
    /\ \A i2 \in 1..Len(FlatMets) : FlatMets[i2].name # FlatDims[i].name

\* no later header writes the key of metric header i
MetricKeyKept(i) == \A i2 \in (i + 1)..Len(FlatMets) : FlatMets[i2].name # FlatMets[i].name

\* C5 as stated: one record per row, in order; every dimension header maps to its
\* position's value or null, every metric header to its position's number or 0.
C5_EveryHeaderMapsToItsValue ==
    flatOut # None =>
        /\ Len(flatOut.a) = Len(FlatRowsIn)
        /\ \A j \in 1..Len(FlatRowsIn) :
            /\ \A i \in 1..Len(FlatDims) :
                  GetKey(flatOut.a[j], FlatDims[i].name) = DimensionOrNull(FlatRowsIn[j], i)
            /\ \A i \in 1..Len(FlatMets) :
                  GetKey(flatOut.a[j], FlatMets[i].name) = MetricOrZero(FlatRowsIn[j], i)

\* C5 amended: one record per row, in order; every header whose name no later header
\* repeats (dimension headers come before metric headers) maps to its position's
\* value, a missing dimension value to null and a missing metric value to 0.
C5_UnrepeatedHeaderMapsToItsValue ==
    flatOut # None =>
        /\ Len(flatOut.a) = Len(FlatRowsIn)
        /\ \A j \in 1..Len(FlatRowsIn) :
            /\ \A i \in 1..Len(FlatDims) :
                  DimensionKeyKept(i) =>
                      GetKey(flatOut.a[j], FlatDims[i].name) = DimensionOrNull(FlatRowsIn[j], i)
            /\ \A i \in 1..Len(FlatMets) :
                  MetricKeyKept(i) =>
                      GetKey(flatOut.a[j], FlatMets[i].name) = MetricOrZero(FlatRowsIn[j], i)

\* two rows flattened under two distinct dimension names and two distinct metric
\* names, the second row short of a dimension value and of a metric value
C5_Witness ==
    /\ flatOut # None
    /\ Len(FlatRowsIn) = 2
    /\ FlatRowsIn[1] = FlatRow(2)
    /\ FlatRowsIn[2] = FlatRow(1)
    /\ Len(FlatDims) = 2 /\ FlatDims[1].name # FlatDims[2].name
    /\ Len(FlatMets) = 1 /\ \A i \in 1..2 : FlatMets[1].name # FlatDims[i].name
    /\ flatOut.a[2][FlatDims[2].name] = Null

\* C6 as stated: the key named by the i-th dimension header holds the row's i-th
\* dimension value (or null), whatever the other headers are named.
C6_DimensionKeyHoldsItsValue ==
    flatOut # None =>
        \A j \in 1..Len(FlatRowsIn) : \A i \in 1..Len(FlatDims) :
            flatOut.a[j][FlatDims[i].name] = DimensionOrNull(FlatRowsIn[j], i)

\* C6 amended: the key named by the i-th dimension header holds the row's i-th
\* dimension value (or null), provided no later dimension header and no metric
\* header has the same name.
C6_UnrepeatedDimensionKeyHoldsItsValue ==
    flatOut # None =>
        \A j \in 1..Len(FlatRowsIn) : \A i \in 1..Len(FlatDims) :
            DimensionKeyKept(i) =>
                flatOut.a[j][FlatDims[i].name] = DimensionOrNull(FlatRowsIn[j], i)

\* a row with two dimension values flattened under two dimension names, the first of
\* them repeated by the metric header and the second by none
C6_Witness ==
    /\ flatOut # None
    /\ Len(FlatRowsIn) >= 1
    /\ FlatRowsIn[1] = FlatRow(2)
    /\ Len(FlatDims) = 2
    /\ ~DimensionKeyKept(1) /\ DimensionKeyKept(2)
    /\ Len(FlatMets) = 1
    /\ flatOut.a[1][FlatDims[2].name] = Str(<<"x", "2">>)

(***************************************************************************)
(* The routes' claims.                                                     *)
(***************************************************************************)
\* request r's handler has finished after the upstream call resolved
Succeeded(r) == pc[r] = "done" /\ upstream[r].state = "resolved"

\* request r's handler has finished after the upstream call rejected
Failed(r) == pc[r] = "done" /\ upstream[r].state = "rejected"

Sorting(r) == route[r] \in {"top-pages", "sources"}

\* the rows of the upstream report, flattened, in upstream order
UpstreamRows(r) ==
    rowsToObjects(upstream[r].res.rows, upstream[r].res.dimensionHeaders,
                  upstream[r].res.metricHeaders)

\* the limit of request r as a number: Number(limit), 10 when the parameter is absent
LimitOf(r) == IF query[r].limit = Undefined THEN Num(10) ELSE ToNumber(query[r].limit)

\* the rows of the response sent for request r
RowsSent(r) == resp[r][1].body.rows

\* the designated metric of a row: screenPageViews for top-pages, sessions for sources
Designated(r, row) == IF route[r] = "top-pages" THEN row.screenPageViews.n ELSE row.sessions.n

SeqToBag(sq) == [e \in {sq[i] : i \in DOMAIN sq} |-> Cardinality({i \in DOMAIN sq : sq[i] = e})]

Min(a, b) == IF a < b THEN a ELSE b

\* the rows sent are rows of the report, in non-increasing order of the designated
\* metric, and no row left out has a greater metric than a row sent
TopOfReport(r) ==
    LET out == RowsSent(r)
        left == SeqToBag(UpstreamRows(r)) (-) SeqToBag(out)
    IN  /\ SeqToBag(out) \sqsubseteq SeqToBag(UpstreamRows(r))
        /\ \A i \in 1..(Len(out) - 1) : Designated(r, out[i]) >= Designated(r, out[i + 1])
        /\ \A o \in BagToSet(left) : \A i \in 1..Len(out) :
               Designated(r, o) <= Designated(r, out[i])

\* C1 as stated: for every numeric L the rows sent are the first min(k, L) rows of
\* the k upstream rows sorted in descending order of the designated metric.
C1_FirstMinRowsForEveryNumericLimit ==
    \A r \in ReqIds :
        (Sorting(r) /\ Succeeded(r) /\ LimitOf(r) # NaN) =>
            /\ Len(RowsSent(r)) * Scale = Min(Len(UpstreamRows(r)) * Scale, LimitOf(r).n)
            /\ TopOfReport(r)

\* C1 amended: for every numeric L >= 0 the rows sent are the first min(k, floor(L))
\* rows of the k upstream rows sorted in descending order of the designated metric.
C1_FirstMinRowsForNonNegativeLimit ==
    \A r \in ReqIds :
        (Sorting(r) /\ Succeeded(r) /\ LimitOf(r) # NaN /\ LimitOf(r).n >= 0) =>
            /\ Len(RowsSent(r)) = Min(Len(UpstreamRows(r)), LimitOf(r).n \div Scale)
            /\ TopOfReport(r)

\* a report of three rows that are not in descending order, cut to a limit of two
C1_Witness ==
    /\ Sorting(1) /\ Succeeded(1)
    /\ LimitOf(1) = Num(2)
    /\ Len(UpstreamRows(1)) = 3
    /\ Designated(1, UpstreamRows(1)[1]) < Designated(1, UpstreamRows(1)[3])
    /\ Len(RowsSent(1)) = 2

\* C2: on top-pages and sources a limit that coerces to NaN yields a successful
\* response whose rows array is empty, for any number of upstream rows.
C2_NaNLimitGivesNoRows ==
    \A r \in ReqIds :
        (Sorting(r) /\ pc[r] = "done" /\ upstream[r].state = "resolved"
            /\ query[r].limit # Undefined /\ ToNumber(query[r].limit) = NaN) =>
            /\ Len(resp[r]) = 1
            /\ resp[r][1].status = 200
            /\ resp[r][1].body.rows = <<>>

\* a limit holding a letter, on a report that has rows
C2_Witness ==
    /\ Sorting(1) /\ Succeeded(1)
    /\ query[1].limit # Undefined
    /\ \E i \in 1..Len(query[1].limit.s) : query[1].limit.s[i] = "a"
    /\ Len(UpstreamRows(1)) >= 2
    /\ resp[1][1].body.rows = <<>>

\* the range a request that supplies start and end asks for
Supplied(r) == [startDate |-> query[r].start, endDate |-> query[r].end]

\* the range request r sent upstream and, on success, echoed in its response
RangeUsed(r, rng) ==
    /\ Len(upreq[r]) >= 1 /\ upreq[r][1].dateRanges = <<rng>>
    /\ Succeeded(r) => resp[r][1].body.range = rng

\* exactly one of start and end is in the query string
OnlyOneBound(r) == (query[r].start = Undefined) # (query[r].end = Undefined)

\* C4 as stated: the range is {start, end} unchanged when both are supplied and the
\* default 28-day window when either is absent; a request supplying only one of
\* them never produces an error and never uses the supplied bound.
C4_RangeIsSuppliedOrDefault ==
    \A r \in ReqIds :
        pc[r] # "idle" =>
            /\ RangeUsed(r, IF query[r].start # Undefined /\ query[r].end # Undefined
                            THEN Supplied(r) ELSE defaultRange(tz, now, 28))
            /\ (OnlyOneBound(r) /\ Succeeded(r)) => resp[r][1].status = 200

\* C4 amended: the range is {start, end} unchanged when both are supplied and neither
\* is the empty string, and the default 28-day window when either is absent or empty;
\* a request supplying only one of them never produces an error and never uses the
\* supplied bound.
C4_RangeIsNonEmptySuppliedOrDefault ==
    \A r \in ReqIds :
        pc[r] # "idle" =>
            /\ RangeUsed(r, IF /\ query[r].start \notin {Undefined, Str(<<>>)}
                               /\ query[r].end \notin {Undefined, Str(<<>>)}
                            THEN Supplied(r) ELSE defaultRange(tz, now, 28))
            /\ (OnlyOneBound(r) /\ Succeeded(r)) => resp[r][1].status = 200

\* a request with a start and no end, answered with the default window
C4_Witness ==
    /\ Succeeded(1)
    /\ query[1].start = Text("2024-01-01")
    /\ query[1].end = Undefined
    /\ resp[1][1].body.range.endDate = toISO(now)

KpiFields ==
    {"totalUsers", "activeUsers", "newUsers", "sessions", "screenPageViews",
     "engagementRate", "averageSessionDuration", "bounceRate"}

\* the names of the metric headers of the report request r was answered with
HeadersReturned(r) ==
    {DefaultArr(upstream[r].res.metricHeaders)[i].name :
        i \in 1..Len(DefaultArr(upstream[r].res.metricHeaders))}

\* C7: on overview, when the upstream call resolves with zero rows the response is a
\* success whose kpis has all eight fields equal to 0; likewise a KPI field missing
\* from the single row is reported as 0.
C7_MissingKpisAreZero ==
    \A r \in ReqIds :
        (route[r] = "overview" /\ pc[r] = "done" /\ upstream[r].state = "resolved") =>
            /\ Len(resp[r]) = 1
            /\ resp[r][1].status = 200
            /\ DOMAIN resp[r][1].body.kpis = KpiFields
            /\ \A f \in KpiFields :
                  (Len(DefaultArr(upstream[r].res.rows)) = 0 \/ f \notin HeadersReturned(r)) =>
                      resp[r][1].body.kpis[f] = Fixed(0)

\* overview answered from a report with no rows field
C7_Witness ==
    /\ route[1] = "overview" /\ Succeeded(1)
    /\ upstream[1].res.rows = Undefined
    /\ resp[1][1].body.kpis["bounceRate"] = Fixed(0)

RouteTag ==
    [r \in Routes |->
        CASE r = "overview" -> "overview_failed"
          [] r = "timeseries" -> "timeseries_failed"
          [] r = "top-pages" -> "top_pages_failed"
          [] r = "sources" -> "sources_failed"
          [] r = "devices" -> "devices_failed"]

\* C8: whenever the upstream call rejects, the response is HTTP 500 with body
\* {error, details}, error the route's fixed tag and details the failure's message;
\* no success body and no partial result is sent for that request.
C8_RejectionGives500WithTag ==
    \A r \in ReqIds :
        upstream[r].state = "rejected" =>
            /\ \A i \in 1..Len(resp[r]) :
                  resp[r][i] = [status |-> 500,
                                body |-> [error |-> RouteTag[route[r]],
                                          details |-> upstream[r].e.message]]
            /\ pc[r] = "done" => Len(resp[r]) = 1

\* sources answered after the upstream call failed
C8_Witness ==
    /\ route[1] = "sources" /\ Failed(1)
    /\ resp[1][1].body.error = "sources_failed"

(***************************************************************************)
(* The claims about the upstream call and about concurrent requests.       *)
(***************************************************************************)
Settled(r) == upstream[r].state \in {"resolved", "rejected"}

\* a request has called the upstream service once from the moment its handler ran,
\* has at most one response, and has one only after its call settled: a success if
\* the call resolved, HTTP 500 if it rejected
OneCallAtMostOneResponse ==
    \A r \in ReqIds :
        /\ Len(upreq[r]) = (IF pc[r] = "idle" THEN 0 ELSE 1)
        /\ Len(resp[r]) <= 1
        /\ Len(resp[r]) = 1 =>
              /\ Settled(r)
              /\ resp[r][1].status = (IF upstream[r].state = "resolved" THEN 200 ELSE 500)

\* C9: every request invokes the upstream service exactly once, whether the call
\* resolves or rejects; once the call completes the request receives exactly one
\* response (success if it resolved, HTTP 500 if it rejected); a request whose call
\* never completes never receives a response.
C9_OneCallOneResponse ==
    /\ []OneCallAtMostOneResponse
    /\ \A r \in ReqIds : Settled(r) ~> (Len(resp[r]) = 1)

\* a request answered once, with HTTP 500, after its one upstream call rejected
C9_Witness ==
    /\ Failed(1)
    /\ Len(upreq[1]) = 1
    /\ Len(resp[1]) = 1 /\ resp[1][1].status = 500

\* request r's runReport has returned its data
HoldsRows(r) == pc[r] \in {"reported", "done"} /\ upstream[r].state = "resolved"

\* the response request r's own query and own upstream result determine
OwnResponse(r) ==
    IF upstream[r].state = "resolved"
    THEN [status |-> 200,
          body |-> SuccessBody(route[r], query[r],
                               ResolveRange(query[r].start, query[r].end, tz, now),
                               Meta(upstream[r].res),
                               IF Sorting(r) THEN SortDesc(UpstreamRows(r), SortKey(route[r]))
                               ELSE UpstreamRows(r))]
    ELSE ErrorResponse(route[r], upstream[r].e)

\* C10: under any interleaving of concurrently handled requests, each request's
\* response depends only on its own query parameters and its own upstream result:
\* the rows a suspended handler holds are its own report's rows, no two requests
\* hold the same array, and the response sent is the one its own inputs determine.
C10_RequestsAreIndependent ==
    \A r \in ReqIds :
        /\ pc[r] = "reported" => heap[data[r].rows] = UpstreamRows(r)
        /\ pc[r] = "done" => resp[r] = <<OwnResponse(r)>>
        /\ \A r2 \in ReqIds \ {r} :
              (HoldsRows(r) /\ HoldsRows(r2)) => data[r].rows # data[r2].rows

\* two top-pages requests with different reports, both suspended with their rows at
\* once, the one whose rows arrived later answered first
C10_Witness ==
    /\ route[1] = "top-pages" /\ route[2] = "top-pages"
    /\ pc[1] = "done" /\ pc[2] = "reported"
    /\ Succeeded(1)
    /\ Len(RowsSent(1)) = 2
    /\ upstream[1].res # upstream[2].res
    /\ data[1].rows > data[2].rows

====
